---- MODULE Spec2Model ----
(***************************************************************************)
(* Convergence instrumentation and fault injection of the ns-3 routing     *)
(* scenarios topologia1.cc, topologia2.cc and topologia3.cc.               *)
(*                                                                         *)
(* Virtual time is counted in periods of the sampler tick: one unit is     *)
(* Seconds(.1) of the simulator (ns-3 Time is an integer number of         *)
(* nanoseconds, so every time of the program is an exact multiple).        *)
(*                                                                         *)
(* Strings are sequences of one-character strings.                         *)
(***************************************************************************)
EXTENDS Integers, Sequences, FiniteSets, TLC

VARIABLES
  now,          \* Simulator::Now()
  queue,        \* the simulator's pending events, in execution order
  tail,         \* per node: what PrintRoutingTable prints after the time field
  ifUp,         \* per (node, interface): administratively up
  m_trackers,   \* per NetworkConvergenceTracker: its vector of RoutingTableTracker
  m_startTime,  \* per NetworkConvergenceTracker: m_startTime
  rendered,     \* history: per sampler, the rendering of its latest capture
  disturbed,    \* history: per sampler, what happened since its latest capture or Start
  last,         \* history: the callback executed last
  used,         \* history: how many client calls and route changes so far
  topo,         \* which scenario file's topology and schedule: 1, 2 or 3
  running,      \* Simulator::Run has not reached the Simulator::Stop event
  nodeInterfaceMap,  \* the global map from (node, node) to an interface index
  stats,        \* monitor->GetFlowStats (): the flow monitor's record of each flow
  report,       \* what the latest PrintFlowStats wrote to std::cout
  main          \* main (): its routingProtocol, and where it is at

vars == <<now, queue, tail, ifUp, m_trackers, m_startTime, rendered, disturbed,
          last, used, topo, running, nodeInterfaceMap, stats, report, main>>

-----------------------------------------------------------------------------
(* Bounds of the model *)

\* Latest virtual time at which the client harness runs a tick.
MaxTime == 16
\* Most packets a flow has sent when the run ends.
MaxPackets == 2
\* Largest interface index of a device handed to ConfigureNetworkLink.
MaxInterface == 2
\* How long after the latest callback a client's Start may come.
MaxDelay == 1
\* Client calls (Start, Stop, TearDownLink, UpLink) and route changes of the
\* routing protocol in one run.
MaxOps == 3
\* Changes of the environment in one run of a scenario: route changes of the
\* routing protocol, and reports that find the flow counters grown.
MaxRouteChanges == 1
\* The scenario's LINK_DOWN_TIME, LINK_UP_TIME and SIMULATION_TIME (100 s, 200 s
\* and 300 s in the source), scaled down to a few tick periods: each window
\* still holds the first tick (1.0 s after its start), later ticks, and a tick
\* that falls exactly on the window's end.
LINK_DOWN_TIME == 12
LINK_UP_TIME == 24
SIMULATION_TIME == 36

(* Program constants, in tick periods *)

\* Simulator::Schedule (Seconds (1.0), ...) in RoutingTableTracker::Start
FirstCheckDelay == 10
\* Simulator::Schedule (Seconds (.1), ...) in CheckRoutingTable
CheckPeriod == 1

-----------------------------------------------------------------------------
(* Strings *)

NL == "\n"
\* std::string::npos, as an index that is no position of a sequence
npos == 0

RECURSIVE FindFrom(_, _, _)
FindFrom(s, c, i) ==
  IF i > Len(s) THEN npos
  ELSE IF s[i] = c THEN i
  ELSE FindFrom(s, c, i + 1)

\* std::string::find: the first position of c, or npos
Find(s, c) == FindFrom(s, c, 1)

\* std::string::substr(pos) with a 0-based pos; p is the 1-based first index kept
Substr(s, p) == SubSeq(s, p, Len(s))

-----------------------------------------------------------------------------
(* The routing protocol's rendering of a node's table (external) *)

Nodes == {"r1", "r2", "r3", "r4"}

\* What a protocol prints after the time field of its first line: ns-3's
\* protocols end the line and list the routes; nothing in the program
\* constrains it, and GetRoutingTable provides for a rendering with no line break.
Tails == { <<NL, "a">>, <<NL, "b">>, <<>> }
InitialTail == <<NL, "a">>

\* The text of the current time in the first line of the rendering.
TimeField(t) == <<ToString(t)>>

\* routing->PrintRoutingTable (stream) at time t
PrintRoutingTable(n, t) == TimeField(t) \o tail[n]

\* RoutingTableTracker::GetRoutingTable at time t
GetRoutingTable(n, t) ==
  LET routingTable == PrintRoutingTable(n, t)
      pos == Find(routingTable, NL)
  IN  IF pos # npos THEN Substr(routingTable, pos + 1) ELSE routingTable

-----------------------------------------------------------------------------
(* class RoutingTableTracker: the functions return the sampler after the call *)

\* RoutingTableTracker (Ptr<Node> node)
RoutingTableTracker(node) ==
  [ m_tracking |-> FALSE, m_node |-> node,
    m_lastRoutingTable |-> <<>>, m_lastChangeTime |-> 0 ]

\* A Start that forgets the clock: the change time goes back to Seconds (0)
RoutingTableTracker_Start_FromZero(s, t) ==
  [ s EXCEPT !.m_tracking = TRUE,
             !.m_lastChangeTime = 0,
             !.m_lastRoutingTable = GetRoutingTable(s.m_node, t) ]

\* RoutingTableTracker::Start at time t (the tick it schedules: StartSchedules)
RoutingTableTracker_Start(s, t) ==
  [ s EXCEPT !.m_tracking = TRUE,
             !.m_lastChangeTime = t,
             !.m_lastRoutingTable = GetRoutingTable(s.m_node, t) ]

\* A Stop that leaves the sampler tracking
RoutingTableTracker_Stop_Ignored(s) == s

\* RoutingTableTracker::Stop
RoutingTableTracker_Stop(s) == [ s EXCEPT !.m_tracking = FALSE ]

\* A tick that records a change when the captured table equals the stored one
CheckRoutingTable_Inverted(s, t) ==
  IF ~s.m_tracking THEN s
  ELSE LET currentRoutingTable == GetRoutingTable(s.m_node, t)
       IN  IF currentRoutingTable = s.m_lastRoutingTable
           THEN [ s EXCEPT !.m_lastChangeTime = t ]
           ELSE [ s EXCEPT !.m_lastRoutingTable = currentRoutingTable ]

\* A tick that counts events: every active tick records a change
CheckRoutingTable_EveryTick(s, t) ==
  IF ~s.m_tracking THEN s
  ELSE [ s EXCEPT !.m_lastRoutingTable = GetRoutingTable(s.m_node, t),
                  !.m_lastChangeTime = t ]

\* A tick that records the change and keeps the table it had stored
CheckRoutingTable_KeepsBaseline(s, t) ==
  IF ~s.m_tracking THEN s
  ELSE LET currentRoutingTable == GetRoutingTable(s.m_node, t)
       IN  IF currentRoutingTable # s.m_lastRoutingTable
           THEN [ s EXCEPT !.m_lastChangeTime = t ]
           ELSE s

\* A tick that samples whether or not the sampler tracks
CheckRoutingTable_Unguarded(s, t) ==
  LET currentRoutingTable == GetRoutingTable(s.m_node, t)
  IN  IF currentRoutingTable # s.m_lastRoutingTable
      THEN [ s EXCEPT !.m_lastRoutingTable = currentRoutingTable,
                      !.m_lastChangeTime = t ]
      ELSE s

\* RoutingTableTracker::CheckRoutingTable at time t (the tick it schedules: TickSchedules)
CheckRoutingTable(s, t) ==
  IF ~s.m_tracking THEN s
  ELSE LET currentRoutingTable == GetRoutingTable(s.m_node, t)
       IN  IF currentRoutingTable # s.m_lastRoutingTable
           THEN [ s EXCEPT !.m_lastRoutingTable = currentRoutingTable,
                           !.m_lastChangeTime = t ]
           ELSE s

\* A tick that re-arms itself whether or not the sampler tracks
TickSchedules_Always(s) == TRUE

\* Whether CheckRoutingTable re-arms itself
TickSchedules(s) == s.m_tracking

\* RoutingTableTracker::GetLastChangeTime
GetLastChangeTime(s) == s.m_lastChangeTime

-----------------------------------------------------------------------------
(* The simulator's event queue (external): events run by time, and events  *)
(* of the same time in the order they were scheduled.                      *)

Event(ts, f, k, i, d) == [ ts |-> ts, f |-> f, k |-> k, i |-> i, d |-> d ]

TickEvent(ts, k, i) == Event(ts, "CheckRoutingTable", k, i, "-")

RECURSIVE InsertAt(_, _, _)
InsertAt(q, e, p) ==
  IF p > Len(q) THEN Append(q, e)
  ELSE IF q[p].ts > e.ts THEN SubSeq(q, 1, p - 1) \o <<e>> \o SubSeq(q, p, Len(q))
  ELSE InsertAt(q, e, p + 1)

\* Simulator::Schedule: e goes after every pending event that is not later than it
\* (the queue is bound to x, so that it is evaluated once)
Schedule(q, e) == CHOOSE r \in { InsertAt(x, e, 1) : x \in {q} } : TRUE

RECURSIVE ScheduleAll(_, _)
ScheduleAll(q, es) ==
  IF es = <<>> THEN q ELSE ScheduleAll(Schedule(q, Head(es)), Tail(es))

-----------------------------------------------------------------------------
(* class NetworkConvergenceTracker *)

\* NetworkConvergenceTracker (NodeContainer routers)
NetworkConvergenceTracker(routers) ==
  [ i \in 1..Len(routers) |-> RoutingTableTracker(routers[i]) ]

\* The samplers after NetworkConvergenceTracker::Start at time t
NetworkConvergenceTracker_Start(trackers, t) ==
  [ i \in 1..Len(trackers) |-> RoutingTableTracker_Start(trackers[i], t) ]

\* The ticks NetworkConvergenceTracker::Start schedules, in the order of the loop
StartSchedules(k, trackers, t) ==
  [ i \in 1..Len(trackers) |-> TickEvent(t + FirstCheckDelay, k, i) ]

\* A Stop that reaches the first sampler only
NetworkConvergenceTracker_Stop_FirstOnly(trackers) ==
  [ i \in 1..Len(trackers) |->
      IF i = 1 THEN RoutingTableTracker_Stop(trackers[i]) ELSE trackers[i] ]

\* The samplers after NetworkConvergenceTracker::Stop
NetworkConvergenceTracker_Stop(trackers) ==
  [ i \in 1..Len(trackers) |-> RoutingTableTracker_Stop(trackers[i]) ]

RECURSIVE MaxTimeLoop(_, _, _)
MaxTimeLoop(trackers, i, maxTime) ==
  IF i > Len(trackers) THEN maxTime
  ELSE LET convergenceTime == GetLastChangeTime(trackers[i])
       IN  MaxTimeLoop(trackers, i + 1,
                       IF convergenceTime > maxTime THEN convergenceTime ELSE maxTime)

\* Faulty variant of ConvergenceTime: the start time is not subtracted
ConvergenceTime_Absolute(trackers, startTime) == MaxTimeLoop(trackers, 1, 0)

\* NetworkConvergenceTracker::GetNetworkConvergenceTime of given members
ConvergenceTime(trackers, startTime) == MaxTimeLoop(trackers, 1, 0) - startTime

\* NetworkConvergenceTracker::GetNetworkConvergenceTime of tracker k
GetNetworkConvergenceTime(k) == ConvergenceTime(m_trackers[k], m_startTime[k])

-----------------------------------------------------------------------------
(* Topologies: the monitored routers and the links the scenario faults.    *)
(* A NetDeviceContainer is the pair of its devices; a device is known by   *)
(* its node and by the interface GetInterfaceForDevice gives for it.       *)

Device(node, interface) == [ node |-> node, interface |-> interface ]

\* NodeContainer routers
Routers(tp) ==
  IF tp = 1 THEN <<"r1", "r2", "r3">> ELSE <<"r1", "r2", "r3", "r4">>

\* The device containers handed to TearDownLink and UpLink
Links(tp) ==
  CASE tp = 1 -> [ ndc1 |-> <<Device("t", 1), Device("r1", 1)>> ]
    [] tp = 2 -> [ ndcR1R2 |-> <<Device("r1", 2), Device("r2", 1)>>,
                   ndcR3R4 |-> <<Device("r3", 2), Device("r4", 1)>> ]
    [] tp = 3 -> [ ndcR1R4 |-> <<Device("r1", 4), Device("r4", 3)>> ]

LinkNames(tp) == DOMAIN Links(tp)

Interfaces(tp) ==
  { <<Links(tp)[d][j].node, Links(tp)[d][j].interface>> : d \in LinkNames(tp), j \in {1, 2} }

\* A link function that reaches the first device of the container only
SetLink_OneEnd(up, devices, value) ==
  LET device1 == devices[1]
      interface1 == <<device1.node, device1.interface>>
  IN  [ up EXCEPT ![interface1] = value ]

\* ipv4->SetDown / SetUp on both devices of the container
SetLink(up, devices, value) ==
  LET device1 == devices[1]
      device2 == devices[2]
      interface1 == <<device1.node, device1.interface>>
      interface2 == <<device2.node, device2.interface>>
  IN  [ up EXCEPT ![interface1] = value, ![interface2] = value ]

\* TearDownLink (NetDeviceContainer devices)
TearDownLink(up, devices) == SetLink(up, devices, FALSE)

\* UpLink (NetDeviceContainer devices)
UpLink(up, devices) == SetLink(up, devices, TRUE)

LinkIsUp(d) ==
  /\ ifUp[<<Links(topo)[d][1].node, Links(topo)[d][1].interface>>]
  /\ ifUp[<<Links(topo)[d][2].node, Links(topo)[d][2].interface>>]

LinkIsDown(d) ==
  /\ ~ifUp[<<Links(topo)[d][1].node, Links(topo)[d][1].interface>>]
  /\ ~ifUp[<<Links(topo)[d][2].node, Links(topo)[d][2].interface>>]

-----------------------------------------------------------------------------
(* The global nodeInterfaceMap of topologia1.cc and ConfigureNetworkLink.  *)
(* topologia2.cc and topologia3.cc have neither: their map is empty.       *)

nullptr == "nullptr"

\* std::map with no entry
EmptyMap == [ key \in {} |-> 0 ]

\* map[key] = value of std::map: the entry is created or overwritten
MapAssign(map, key, value) ==
  [ k \in DOMAIN map \cup {key} |-> IF k = key THEN value ELSE map[k] ]

\* iic.Get (j).first->GetInterfaceForDevice (ndc.Get (j)): the index of the
\* device's interface on the device's own node
GetInterfaceForDevice(device) == device.interface

\* A registration of the forward direction only
ConfigureNetworkLink_ForwardOnly(map, node1, node2, ndc) ==
  IF node1 = nullptr \/ node2 = nullptr \/ Len(ndc) = 0
  THEN map
  ELSE MapAssign(map, <<node1, node2>>, GetInterfaceForDevice(ndc[1]))

\* A guard that does not look at node2
ConfigureNetworkLink_Node2Unchecked(map, node1, node2, ndc) ==
  IF node1 = nullptr \/ Len(ndc) = 0
  THEN map
  ELSE MapAssign(MapAssign(map, <<node1, node2>>, GetInterfaceForDevice(ndc[1])),
                 <<node2, node1>>, GetInterfaceForDevice(ndc[2]))

\* ConfigureNetworkLink: the devices to which its ipv4.Assign (ndc) gives an address
ConfigureNetworkLink_Assign(node1, node2, ndc) ==
  IF node1 = nullptr \/ node2 = nullptr \/ Len(ndc) = 0
  THEN {}
  ELSE { ndc[j] : j \in DOMAIN ndc }

\* ConfigureNetworkLink (node1, node2, ndc, ipv4, networkBase): the map after the call
ConfigureNetworkLink(map, node1, node2, ndc) ==
  IF node1 = nullptr \/ node2 = nullptr \/ Len(ndc) = 0
  THEN map
  ELSE MapAssign(MapAssign(map, <<node1, node2>>, GetInterfaceForDevice(ndc[1])),
                 <<node2, node1>>, GetInterfaceForDevice(ndc[2]))

\* The links of topologia1.cc: net1..net4 with ndc1..ndc4
Topologia1Nets ==
  << [ node1 |-> "t",  node2 |-> "r1", ndc |-> <<Device("t", 1),  Device("r1", 1)>> ],
     [ node1 |-> "r1", node2 |-> "r2", ndc |-> <<Device("r1", 2), Device("r2", 1)>> ],
     [ node1 |-> "r2", node2 |-> "r3", ndc |-> <<Device("r2", 2), Device("r3", 1)>> ],
     [ node1 |-> "r3", node2 |-> "r",  ndc |-> <<Device("r3", 2), Device("r", 1)>> ] >>

RECURSIVE ConfigureAll(_, _, _)
ConfigureAll(map, nets, j) ==
  IF j > Len(nets) THEN map
  ELSE ConfigureAll(ConfigureNetworkLink(map, nets[j].node1, nets[j].node2, nets[j].ndc),
                    nets, j + 1)

\* nodeInterfaceMap when main has built the topology
MainRegistry(tp) == IF tp = 1 THEN ConfigureAll(EmptyMap, Topologia1Nets, 1) ELSE EmptyMap

-----------------------------------------------------------------------------
(* The flow monitor's statistics and PrintFlowStats *)

\* client.SetAttribute ("PacketSize", UintegerValue (1024))
PacketSize == 1024

\* The five-tuples the classifier knows, by FlowId: the client's flow from T
\* to R, and a flow in the other direction. An address is named by its node.
FlowTuples == << <<"t", "r">>, <<"r", "t">> >>

\* FlowMonitor::FlowStats of the flow flowId with the given packet counters:
\* every packet has PacketSize bytes, every received packet took one unit of
\* time, and two packets received in a row differ by one unit of delay
FlowStats(flowId, tx, rx, lost) ==
  [ flowId |-> flowId,
    sourceAddress |-> FlowTuples[flowId][1],
    destinationAddress |-> FlowTuples[flowId][2],
    txPackets |-> tx, rxPackets |-> rx, lostPackets |-> lost,
    txBytes |-> tx * PacketSize, rxBytes |-> rx * PacketSize,
    delaySum |-> rx, jitterSum |-> IF rx > 1 THEN rx - 1 ELSE 0 ]

\* The counters a flow can have: received and lost packets were sent
Counters ==
  { c \in [ tx : 0..MaxPackets, rx : 0..MaxPackets, lost : 0..MaxPackets ] :
      c.rx + c.lost <= c.tx }

\* The records flow flowId can have, its counters being at least those of c
FlowStatsFrom(flowId, c) ==
  { FlowStats(flowId, n.tx, n.rx, n.lost) :
      n \in { m \in Counters : m.tx >= c.tx /\ m.rx >= c.rx /\ m.lost >= c.lost } }

NoPackets == [ tx |-> 0, rx |-> 0, lost |-> 0 ]

CountersOf(f) == [ tx |-> f.txPackets, rx |-> f.rxPackets, lost |-> f.lostPackets ]

\* The statistics of the first n flows that can follow the statistics st
RECURSIVE StatsOfLength(_, _)
StatsOfLength(st, n) ==
  IF n = 0 THEN { <<>> }
  ELSE { Append(x, f) :
           x \in StatsOfLength(st, n - 1),
           f \in FlowStatsFrom(n, IF n <= Len(st) THEN CountersOf(st[n]) ELSE NoPackets) }

\* What monitor->GetFlowStats () can return after it returned st: the counters
\* are cumulative, and flows are added in the order of their FlowId, to at
\* most flows of them
LaterStats(st, flows) == UNION { StatsOfLength(st, n) : n \in Len(st)..flows }

\* The first n flows of st after monitor->CheckForLostPackets ()
RECURSIVE AfterCheck(_, _)
AfterCheck(st, n) ==
  IF n = 0 THEN { <<>> }
  ELSE { Append(x, FlowStats(n, st[n].txPackets, st[n].rxPackets, lost)) :
           x \in AfterCheck(st, n - 1),
           lost \in st[n].lostPackets..(st[n].txPackets - st[n].rxPackets) }

\* monitor->CheckForLostPackets () on the statistics st: of the packets of a
\* flow that were sent and are neither received nor counted as lost, those
\* the monitor has tracked for too long are counted as lost
CheckForLostPackets(st) == AfterCheck(st, Len(st))

NoFlows == <<>>

\* Nothing has been printed yet
NoReport == [ printed |-> FALSE ]

\* A double: a quotient num / den of two integers that the program converts to
\* double before dividing (wrapped: the divisor is den + 2^32), or one of the
\* values a division by zero gives
NaN == [ kind |-> "nan" ]

Inf == [ kind |-> "inf" ]

Number(num, den) == [ kind |-> "number", num |-> num, den |-> den, wrapped |-> FALSE ]

\* The int 0 of a conditional expression whose other operand is a double
Zero == Number(0, 1)

\* a / b in double
Divide(a, b) == IF b = 0 THEN (IF a = 0 THEN NaN ELSE Inf) ELSE Number(a, b)

\* a / (n - 1) with n a uint32_t: n - 1 is computed in unsigned arithmetic
\* and converted to double
DivideByPredecessor(a, n) ==
  IF n = 0 THEN [ kind |-> "number", num |-> a, den |-> -1, wrapped |-> TRUE ]
  ELSE Divide(a, n - 1)

\* A loss ratio with the operands exchanged
LossRatio_Inverted(lostPackets, txPackets) ==
  IF txPackets # 0 THEN Divide(txPackets, lostPackets) ELSE Zero

\* (txPackets ? static_cast<double> (lostPackets) / txPackets : 0)
LossRatio(lostPackets, txPackets) ==
  IF txPackets # 0 THEN Divide(lostPackets, txPackets) ELSE Zero

\* (txPackets ? static_cast<double> (txBytes) / txPackets : 0)
AveragePacketSize(txBytes, txPackets) ==
  IF txPackets # 0 THEN Divide(txBytes, txPackets) ELSE Zero

\* A throughput over the time elapsed so far
Throughput_Elapsed(rxBytes) == Divide(rxBytes * 8, now * 1000 * 1000)

\* rxBytes * 8.0 / SIMULATION_TIME / 1000 / 1000 (SIMULATION_TIME in units of time)
Throughput(rxBytes) == Divide(rxBytes * 8, SIMULATION_TIME * 1000 * 1000)

\* A delay that is the sum of the delays, not their average
Delay_NotAveraged(delaySum, rxPackets) ==
  IF rxPackets # 0 THEN Divide(delaySum, 1) ELSE Zero

\* (rxPackets ? delaySum.GetSeconds () / rxPackets : 0)
Delay(delaySum, rxPackets) ==
  IF rxPackets # 0 THEN Divide(delaySum, rxPackets) ELSE Zero

\* ((rxPackets > 1) ? jitterSum.GetSeconds () / (rxPackets - 1) : 0)
Jitter(jitterSum, rxPackets) ==
  IF rxPackets > 1 THEN DivideByPredecessor(jitterSum, rxPackets) ELSE Zero

\* The lines topologia1.cc prints for a flow
FlowLines1(f) ==
  [ flowId |-> f.flowId,
    txPackets |-> f.txPackets, rxPackets |-> f.rxPackets, lostPackets |-> f.lostPackets,
    lossRatio |-> LossRatio(f.lostPackets, f.txPackets),
    averagePacketSize |-> AveragePacketSize(f.txBytes, f.txPackets),
    throughput |-> Throughput(f.rxBytes),
    delay |-> Delay(f.delaySum, f.rxPackets),
    jitter |-> Jitter(f.jitterSum, f.rxPackets) ]

\* A report of the flows between node1 and node2 in either direction
PrintFlowStats1_EitherDirection(st, t, node1, node2) ==
  LET srcAddress == node1
      dstAddress == node2
      Matches(f) == \/ f.sourceAddress = srcAddress /\ f.destinationAddress = dstAddress
                    \/ f.sourceAddress = dstAddress /\ f.destinationAddress = srcAddress
      matching == SelectSeq(st, Matches)
  IN  [ printed |-> TRUE, at |-> t,
        lines |-> [ j \in 1..Len(matching) |-> FlowLines1(matching[j]) ] ]

\* PrintFlowStats of topologia1.cc at time t: the flows from node1 to node2
PrintFlowStats1(st, t, node1, node2) ==
  LET srcAddress == node1
      dstAddress == node2
      Matches(f) == f.sourceAddress = srcAddress /\ f.destinationAddress = dstAddress
      matching == SelectSeq(st, Matches)
  IN  [ printed |-> TRUE, at |-> t,
        lines |-> [ j \in 1..Len(matching) |-> FlowLines1(matching[j]) ] ]

\* The lines topologia2.cc prints for a flow
FlowLines2(f) ==
  [ flowId |-> f.flowId,
    txPackets |-> f.txPackets, rxPackets |-> f.rxPackets, lostPackets |-> f.lostPackets,
    lossRatio |-> Divide(f.lostPackets, f.txPackets),
    averagePacketSize |-> Divide(f.txBytes, f.txPackets),
    throughput |-> Throughput(f.rxBytes),
    delay |-> Divide(f.delaySum, f.rxPackets),
    jitter |-> DivideByPredecessor(f.jitterSum, f.rxPackets) ]

\* PrintFlowStats of topologia2.cc: every flow
PrintFlowStats2(st) ==
  [ printed |-> TRUE, lines |-> [ j \in 1..Len(st) |-> FlowLines2(st[j]) ] ]

NoTotals ==
  [ totalTxPackets |-> 0, totalRxPackets |-> 0, totalLostPackets |-> 0,
    totalTxBytes |-> 0, totalRxBytes |-> 0,
    totalDelaySum |-> 0, totalJitterSum |-> 0, totalFlows |-> 0 ]

\* A loop that keeps the counters of the flow it visits instead of adding them
RECURSIVE Totals_LastFlow(_, _, _)
Totals_LastFlow(st, j, acc) ==
  IF j > Len(st) THEN acc
  ELSE Totals_LastFlow(st, j + 1,
         [ totalTxPackets |-> st[j].txPackets,
           totalRxPackets |-> st[j].rxPackets,
           totalLostPackets |-> st[j].lostPackets,
           totalTxBytes |-> st[j].txBytes,
           totalRxBytes |-> st[j].rxBytes,
           totalDelaySum |-> st[j].delaySum,
           totalJitterSum |-> IF st[j].rxPackets > 1 THEN st[j].jitterSum ELSE 0,
           totalFlows |-> acc.totalFlows + 1 ])

\* The loop of PrintFlowStats of topologia3.cc over the flows from the j-th on
RECURSIVE Totals(_, _, _)
Totals(st, j, acc) ==
  IF j > Len(st) THEN acc
  ELSE Totals(st, j + 1,
         [ totalTxPackets |-> acc.totalTxPackets + st[j].txPackets,
           totalRxPackets |-> acc.totalRxPackets + st[j].rxPackets,
           totalLostPackets |-> acc.totalLostPackets + st[j].lostPackets,
           totalTxBytes |-> acc.totalTxBytes + st[j].txBytes,
           totalRxBytes |-> acc.totalRxBytes + st[j].rxBytes,
           totalDelaySum |-> acc.totalDelaySum + st[j].delaySum,
           totalJitterSum |-> acc.totalJitterSum
                              + (IF st[j].rxPackets > 1 THEN st[j].jitterSum ELSE 0),
           totalFlows |-> acc.totalFlows + 1 ])

\* PrintFlowStats of topologia3.cc at time t: the totals of all flows
\* (flowId 0), or the line that says there is no flow
PrintFlowStats3(st, t) ==
  LET a == Totals(st, 1, NoTotals)
  IN  IF a.totalFlows > 0
      THEN [ printed |-> TRUE, at |-> t,
             lines |-> << [ flowId |-> 0,
                            txPackets |-> a.totalTxPackets,
                            rxPackets |-> a.totalRxPackets,
                            lostPackets |-> a.totalLostPackets,
                            lossRatio |-> LossRatio(a.totalLostPackets, a.totalTxPackets),
                            averagePacketSize |->
                              AveragePacketSize(a.totalTxBytes, a.totalTxPackets),
                            throughput |-> Throughput(a.totalRxBytes),
                            delay |-> Delay(a.totalDelaySum, a.totalRxPackets),
                            jitter |-> Jitter(a.totalJitterSum, a.totalRxPackets) ] >> ]
      ELSE [ printed |-> TRUE, at |-> t, lines |-> <<>> ]

\* PrintFlowStats of the scenario tp
PrintFlowStats(tp, st, t) ==
  CASE tp = 1 -> PrintFlowStats1(st, t, "t", "r")
    [] tp = 2 -> PrintFlowStats2(st)
    [] tp = 3 -> PrintFlowStats3(st, t)


-----------------------------------------------------------------------------
(* History kept beside the program's state *)

\* routes and links: what changed since the sampler's latest capture;
\* differed: an active tick since the latest Start captured a table other than
\* the stored one
NoDisturbance == [ routes |-> 0, links |-> 0, differed |-> FALSE ]

\* What the last step was: op its name ("Start", "CheckRoutingTable",
\* "RouteChange", or "other"), k the tracker and i the sampler it ran on (for a
\* route change, k the node), tracking the sampler's m_tracking when it began,
\* routes and links the sampler's disturbed record when it began.
Did(op, k, i, tracking, dist) ==
  [ op |-> op, k |-> k, i |-> i, tracking |-> tracking,
    routes |-> dist.routes, links |-> dist.links ]

Other == Did("other", "-", 0, FALSE, NoDisturbance)

RouteChanged(n) == Did("RouteChange", n, 0, FALSE, NoDisturbance)

\* The last step was PrintFlowStats; read: the monitor's statistics when it
\* was called
Reported(read) ==
  [ op |-> "PrintFlowStats", k |-> "-", i |-> 0, tracking |-> FALSE,
    routes |-> 0, links |-> 0, read |-> read ]

\* disturbed.routes: 0 none, 1 one route change, 2 two or more since the capture
AfterRouteChange(d) == [ d EXCEPT !.routes = IF @ < 2 THEN @ + 1 ELSE 2 ]

\* disturbed.links: 0 none, 1 a link was torn down since the capture, 2 it was
\* torn down and a link was brought up after that
AfterLink(d, value) ==
  [ d EXCEPT !.links = IF ~value /\ @ = 0 THEN 1
                       ELSE IF value /\ @ = 1 THEN 2 ELSE @ ]

Samplers ==
  UNION { { <<k, i>> : i \in DOMAIN m_trackers[k] } : k \in DOMAIN m_trackers }

DisturbAll(what, value) ==
  [ k \in DOMAIN disturbed |->
      [ i \in DOMAIN disturbed[k] |->
          IF what = "routes" THEN AfterRouteChange(disturbed[k][i])
          ELSE AfterLink(disturbed[k][i], value) ] ]

-----------------------------------------------------------------------------
(* The callbacks, as the simulator runs them at time t *)

\* NetworkConvergenceTracker::Start of tracker k; q holds the other pending events
Do_Start(k, t, q) ==
  /\ now' = t
  /\ m_startTime' = [ m_startTime EXCEPT ![k] = t ]
  /\ m_trackers' = [ m_trackers EXCEPT ![k] = NetworkConvergenceTracker_Start(@, t) ]
  /\ queue' = ScheduleAll(q, StartSchedules(k, m_trackers[k], t))
  /\ rendered' = [ rendered EXCEPT ![k] =
                     [ i \in DOMAIN @ |-> PrintRoutingTable(m_trackers[k][i].m_node, t) ] ]
  /\ disturbed' = [ disturbed EXCEPT ![k] = [ i \in DOMAIN @ |-> NoDisturbance ] ]
  /\ last' = Did("Start", k, 0, FALSE, NoDisturbance)
  /\ UNCHANGED <<tail, ifUp, topo, running, nodeInterfaceMap, stats, report, main>>

\* NetworkConvergenceTracker::Stop of tracker k
Do_Stop(k, t) ==
  /\ now' = t
  /\ m_trackers' = [ m_trackers EXCEPT ![k] = NetworkConvergenceTracker_Stop(@) ]
  /\ last' = Other
  /\ UNCHANGED <<tail, ifUp, m_startTime, rendered, disturbed, topo, running>>
  /\ UNCHANGED <<nodeInterfaceMap, stats, report, main>>

\* A link function that erases the map
Do_Link_Unregisters(d, value, t) ==
  /\ now' = t
  /\ ifUp' = IF value THEN UpLink(ifUp, Links(topo)[d])
                      ELSE TearDownLink(ifUp, Links(topo)[d])
  /\ disturbed' = DisturbAll("links", value)
  /\ last' = Other
  /\ nodeInterfaceMap' = EmptyMap
  /\ UNCHANGED <<tail, m_trackers, m_startTime, rendered, topo, running, stats, report, main>>

\* TearDownLink (value FALSE) or UpLink (value TRUE) on the container named d
Do_Link(d, value, t) ==
  /\ now' = t
  /\ ifUp' = IF value THEN UpLink(ifUp, Links(topo)[d])
                      ELSE TearDownLink(ifUp, Links(topo)[d])
  /\ disturbed' = DisturbAll("links", value)
  /\ last' = Other
  /\ UNCHANGED <<tail, m_trackers, m_startTime, rendered, topo, running>>
  /\ UNCHANGED <<nodeInterfaceMap, stats, report, main>>

\* PrintFlowStats at time t: the monitor, whose counters have grown since it
\* was read last and which knows at most flows flows, checks for lost packets;
\* the function reads the statistics and prints
Do_PrintFlowStats(t, flows) ==
  /\ now' = t
  /\ \E read \in LaterStats(stats, flows) :
       \E st \in CheckForLostPackets(read) :
         /\ stats' = st
         /\ report' = PrintFlowStats(topo, st, t)
         /\ last' = Reported(read)
  /\ UNCHANGED <<tail, ifUp, m_trackers, m_startTime, rendered, disturbed, topo, running,
                 nodeInterfaceMap, main>>

\* The event at the head of the queue is a tick: RoutingTableTracker::CheckRoutingTable
Fire_CheckRoutingTable ==
  /\ queue # <<>>
  /\ Head(queue).f = "CheckRoutingTable"
  /\ LET e == Head(queue)
         s == m_trackers[e.k][e.i]
         t == e.ts
     IN  /\ now' = t
         /\ m_trackers' = [ m_trackers EXCEPT ![e.k][e.i] = CheckRoutingTable(s, t) ]
         /\ queue' = IF TickSchedules(s)
                     THEN Schedule(Tail(queue), TickEvent(t + CheckPeriod, e.k, e.i))
                     ELSE Tail(queue)
         /\ rendered' = IF s.m_tracking
                        THEN [ rendered EXCEPT ![e.k][e.i] = PrintRoutingTable(s.m_node, t) ]
                        ELSE rendered
         /\ disturbed' =
              IF s.m_tracking
              THEN [ disturbed EXCEPT ![e.k][e.i] =
                       [ routes |-> 0, links |-> 0,
                         differed |-> @.differed
                                      \/ GetRoutingTable(s.m_node, t) # s.m_lastRoutingTable ] ]
              ELSE disturbed
         /\ last' = Did("CheckRoutingTable", e.k, e.i, s.m_tracking, disturbed[e.k][e.i])
  /\ UNCHANGED <<tail, ifUp, m_startTime, used, topo, running>>
  /\ UNCHANGED <<nodeInterfaceMap, stats, report, main>>

\* The routing protocol of node n replaces its table (external to the program;
\* it happens between two callbacks of the program)
RouteChange(n) ==
  /\ running
  /\ \E v \in Tails \ {tail[n]} : tail' = [ tail EXCEPT ![n] = v ]
  /\ used' = used + 1
  /\ disturbed' = DisturbAll("routes", TRUE)
  /\ last' = RouteChanged(n)
  /\ UNCHANGED <<now, queue, ifUp, m_trackers, m_startTime, rendered, topo, running>>
  /\ UNCHANGED <<nodeInterfaceMap, stats, report, main>>

MonitoredNodes == { m_trackers[x[1]][x[2]].m_node : x \in Samplers }

-----------------------------------------------------------------------------
(* main (): the choice of the routing protocol *)

\* Where main is at: before the choice of the routing protocol, in (or past)
\* Simulator::Run, or returned
Main(routingProtocol, at) == [ routingProtocol |-> routingProtocol, at |-> at ]

rip == <<"r", "i", "p">>

olsr == <<"o", "l", "s", "r">>

\* std::string routingProtocol = "rip", and main in Simulator::Run
InRun == Main(rip, "Simulator::Run")

\* No routing helper: main returns 1
NoHelper == "return 1"

\* A choice that takes every unknown name for rip
RoutingHelper_DefaultRip(routingProtocol) ==
  IF routingProtocol = olsr THEN "OlsrHelper" ELSE "RipHelper"

\* if (routingProtocol == "rip") ... else if (routingProtocol == "olsr") ...
\* else return 1: the helper main installs, or NoHelper
RoutingHelper(routingProtocol) ==
  IF routingProtocol = rip THEN "RipHelper"
  ELSE IF routingProtocol = olsr THEN "OlsrHelper"
  ELSE NoHelper

-----------------------------------------------------------------------------
(* Specification Spec: a client drives one NetworkConvergenceTracker, the   *)
(* link functions and the routing protocol in every order, at every time.  *)

\* The node containers a client may construct the tracker over
ClientRouters == { SubSeq(Routers(1), 1, m) : m \in 0..Len(Routers(1)) }

NoHistory(trackers) ==
  /\ rendered = [ k \in DOMAIN trackers |-> [ i \in DOMAIN trackers[k] |-> <<>> ] ]
  /\ disturbed = [ k \in DOMAIN trackers |-> [ i \in DOMAIN trackers[k] |-> NoDisturbance ] ]
  /\ last = Other
  /\ used = 0

Init ==
  /\ now = 0
  /\ queue = <<>>
  /\ tail = [ n \in Nodes |-> InitialTail ]
  /\ topo = 1
  /\ ifUp = [ x \in Interfaces(1) |-> TRUE ]
  /\ \E routers \in ClientRouters :
       m_trackers = [ k \in {"tracker"} |-> NetworkConvergenceTracker(routers) ]
  /\ m_startTime = [ k \in {"tracker"} |-> 0 ]
  /\ NoHistory(m_trackers)
  /\ running = TRUE
  /\ nodeInterfaceMap = MainRegistry(topo)
  /\ stats = NoFlows
  /\ report = NoReport
  /\ main = InRun

\* The times at which a client's Start can run: not before now, and not after
\* a pending event has become due. (A client's other calls do not read the
\* clock: they run at some time from now to the next callback's.)
ClientTimes ==
  { t \in now..(now + MaxDelay) : t <= MaxTime /\ (queue = <<>> \/ t <= Head(queue).ts) }

Client_Start ==
  \E k \in DOMAIN m_trackers, t \in ClientTimes :
    /\ used < MaxOps
    /\ Do_Start(k, t, queue)
    /\ used' = used + 1

Client_Stop ==
  \E k \in DOMAIN m_trackers :
    /\ used < MaxOps
    /\ Do_Stop(k, now)
    /\ UNCHANGED queue
    /\ used' = used + 1

Client_TearDownLink ==
  \E d \in LinkNames(topo) :
    /\ used < MaxOps
    /\ Do_Link(d, FALSE, now)
    /\ UNCHANGED queue
    /\ used' = used + 1

Client_UpLink ==
  \E d \in LinkNames(topo) :
    /\ used < MaxOps
    /\ Do_Link(d, TRUE, now)
    /\ UNCHANGED queue
    /\ used' = used + 1

Client_Tick ==
  /\ queue # <<>>
  /\ Head(queue).ts <= MaxTime
  /\ Fire_CheckRoutingTable

Client_RouteChange ==
  /\ used < MaxOps
  /\ \E n \in MonitoredNodes : RouteChange(n)

Next ==
  \/ Client_Start
  \/ Client_Stop
  \/ Client_TearDownLink
  \/ Client_UpLink
  \/ Client_Tick
  \/ Client_RouteChange

Spec == Init /\ [][Next]_vars

-----------------------------------------------------------------------------
(* Specification MainSpec: main() of topologia1.cc, topologia2.cc or       *)
(* topologia3.cc schedules its events and Simulator::Run executes them,    *)
(* while the routing protocol changes routes at any moment.                *)

Trackers == <<"convergenceBeforeDown", "convergenceDuringDown", "convergenceAfterDown">>

\* The Simulator::Schedule calls of main for the links, in the order of the source
LinkEvents(tp) ==
  CASE tp = 1 -> << Event(LINK_DOWN_TIME, "TearDownLink", "-", 0, "ndc1"),
                    Event(LINK_UP_TIME, "UpLink", "-", 0, "ndc1") >>
    [] tp = 2 -> << Event(LINK_DOWN_TIME, "TearDownLink", "-", 0, "ndcR1R2"),
                    Event(LINK_UP_TIME, "UpLink", "-", 0, "ndcR1R2"),
                    Event(LINK_DOWN_TIME, "TearDownLink", "-", 0, "ndcR3R4"),
                    Event(LINK_UP_TIME, "UpLink", "-", 0, "ndcR3R4") >>
    [] tp = 3 -> << Event(LINK_DOWN_TIME, "TearDownLink", "-", 0, "ndcR1R4"),
                    Event(LINK_UP_TIME, "UpLink", "-", 0, "ndcR1R4") >>

\* The Simulator::Schedule calls of main for PrintFlowStats (topologia2 prints
\* after Simulator::Run instead)
ReportEvents(tp) ==
  IF tp = 2 THEN <<>>
  ELSE << Event(LINK_DOWN_TIME, "PrintFlowStats", "-", 0, "-"),
          Event(LINK_UP_TIME, "PrintFlowStats", "-", 0, "-"),
          Event(SIMULATION_TIME, "PrintFlowStats", "-", 0, "-") >>

\* A main that schedules each window's Start before the Stop of the window
\* that ends at the same time
TrackerEvents_StartBeforeStop ==
  << Event(0, "Start", Trackers[1], 0, "-"),
     Event(LINK_DOWN_TIME, "Start", Trackers[2], 0, "-"),
     Event(LINK_DOWN_TIME, "Stop", Trackers[1], 0, "-"),
     Event(LINK_UP_TIME, "Start", Trackers[3], 0, "-"),
     Event(LINK_UP_TIME, "Stop", Trackers[2], 0, "-"),
     Event(SIMULATION_TIME, "Stop", Trackers[3], 0, "-") >>

\* The Simulator::Schedule calls of main for the three trackers
TrackerEvents ==
  << Event(0, "Start", Trackers[1], 0, "-"),
     Event(LINK_DOWN_TIME, "Stop", Trackers[1], 0, "-"),
     Event(LINK_DOWN_TIME, "Start", Trackers[2], 0, "-"),
     Event(LINK_UP_TIME, "Stop", Trackers[2], 0, "-"),
     Event(LINK_UP_TIME, "Start", Trackers[3], 0, "-"),
     Event(SIMULATION_TIME, "Stop", Trackers[3], 0, "-") >>

\* Simulator::Stop (Seconds (SIMULATION_TIME))
StopEvent == << Event(SIMULATION_TIME, "SimulatorStop", "-", 0, "-") >>

\* A main that schedules the trackers before the links
MainSchedule_TrackersFirst(tp) ==
  ScheduleAll(<<>>, TrackerEvents \o LinkEvents(tp) \o ReportEvents(tp) \o StopEvent)

\* The event queue when Simulator::Run begins
MainSchedule(tp) ==
  ScheduleAll(<<>>, LinkEvents(tp) \o ReportEvents(tp) \o TrackerEvents \o StopEvent)

Topologies == {1, 2, 3}

\* The event queue of each scenario when Simulator::Run begins
MainSchedules == [ tp \in Topologies |-> MainSchedule(tp) ]

MainInit ==
  /\ now = 0
  /\ topo \in Topologies
  /\ queue = MainSchedule(topo)
  /\ tail = [ n \in Nodes |-> InitialTail ]
  /\ ifUp = [ x \in Interfaces(topo) |-> TRUE ]
  /\ m_trackers = [ k \in { Trackers[j] : j \in 1..3 } |->
                      NetworkConvergenceTracker(Routers(topo)) ]
  /\ m_startTime = [ k \in { Trackers[j] : j \in 1..3 } |-> 0 ]
  /\ NoHistory(m_trackers)
  /\ running = TRUE
  /\ nodeInterfaceMap = MainRegistry(topo)
  /\ stats = NoFlows
  /\ report = NoReport
  /\ main = InRun

\* Simulator::Run takes the event at the head of the queue
Next_Is(f) == running /\ queue # <<>> /\ Head(queue).f = f

Ev_TearDownLink ==
  /\ Next_Is("TearDownLink")
  /\ Do_Link(Head(queue).d, FALSE, Head(queue).ts)
  /\ queue' = Tail(queue)
  /\ UNCHANGED used

Ev_UpLink ==
  /\ Next_Is("UpLink")
  /\ Do_Link(Head(queue).d, TRUE, Head(queue).ts)
  /\ queue' = Tail(queue)
  /\ UNCHANGED used

\* The flows of main's traffic: the one of its UDP client
MainFlows == 1

\* The step has read counters that have grown: it counts as a change of the
\* environment, like a route change
CountsTraffic ==
  /\ stats' # stats => used < MaxRouteChanges
  /\ used' = IF stats' # stats THEN used + 1 ELSE used

\* PrintFlowStats reads the flow monitor and writes the report
Ev_PrintFlowStats ==
  /\ Next_Is("PrintFlowStats")
  /\ Do_PrintFlowStats(Head(queue).ts, MainFlows)
  /\ queue' = Tail(queue)
  /\ CountsTraffic

\* topologia2.cc calls PrintFlowStats when Simulator::Run has returned
Main_PrintFlowStats ==
  /\ ~running
  /\ topo = 2
  /\ ~report.printed
  /\ Do_PrintFlowStats(now, MainFlows)
  /\ UNCHANGED queue
  /\ CountsTraffic

Ev_Start ==
  /\ Next_Is("Start")
  /\ Do_Start(Head(queue).k, Head(queue).ts, Tail(queue))
  /\ UNCHANGED used

Ev_Stop ==
  /\ Next_Is("Stop")
  /\ Do_Stop(Head(queue).k, Head(queue).ts)
  /\ queue' = Tail(queue)
  /\ UNCHANGED used

Ev_CheckRoutingTable ==
  /\ running
  /\ Fire_CheckRoutingTable

\* The Simulator::Stop event ends Simulator::Run: the events left are never run
Ev_SimulatorStop ==
  /\ Next_Is("SimulatorStop")
  /\ now' = Head(queue).ts
  /\ queue' = Tail(queue)
  /\ running' = FALSE
  /\ last' = Other
  /\ UNCHANGED <<tail, ifUp, m_trackers, m_startTime, rendered, disturbed, used, topo>>
  /\ UNCHANGED <<nodeInterfaceMap, stats, report, main>>

Env_RouteChange ==
  /\ used < MaxRouteChanges
  /\ \E n \in MonitoredNodes : RouteChange(n)

MainNext ==
  \/ Ev_TearDownLink
  \/ Ev_UpLink
  \/ Ev_PrintFlowStats
  \/ Ev_Start
  \/ Ev_Stop
  \/ Ev_CheckRoutingTable
  \/ Ev_SimulatorStop
  \/ Main_PrintFlowStats
  \/ Env_RouteChange

MainSpec == MainInit /\ [][MainNext]_vars

-----------------------------------------------------------------------------
(* Specification LaunchSpec: main () from its first statement: it chooses  *)
(* the routing protocol, builds the topology, schedules the events, runs   *)
(* the simulator and returns.                                              *)

\* The values of --routingProtocol: the two protocols, the name of another
\* protocol, a protocol's name in capitals, and the empty string
Selectors == { rip, olsr, <<"o", "s", "p", "f">>, <<"R", "I", "P">>, <<>> }

LaunchInit ==
  /\ now = 0
  /\ topo \in Topologies
  /\ queue = <<>>
  /\ tail = [ n \in Nodes |-> InitialTail ]
  /\ ifUp = EmptyMap
  /\ m_trackers = EmptyMap
  /\ m_startTime = EmptyMap
  /\ NoHistory(m_trackers)
  /\ running = TRUE
  /\ nodeInterfaceMap = EmptyMap
  /\ stats = NoFlows
  /\ report = NoReport
  /\ \E routingProtocol \in Selectors : main = Main(routingProtocol, "start")

\* main from the choice of the routing protocol to the call of
\* Simulator::Run: it returns 1, or installs the protocol, registers the
\* links, creates the trackers and schedules the events
Main_ChooseProtocol ==
  /\ main.at = "start"
  /\ IF RoutingHelper(main.routingProtocol) = NoHelper
     THEN /\ main' = Main(main.routingProtocol, "return 1")
          /\ UNCHANGED <<now, queue, tail, ifUp, m_trackers, m_startTime, rendered,
                         disturbed, last, used, topo, running, nodeInterfaceMap,
                         stats, report>>
     ELSE /\ main' = Main(main.routingProtocol, "Simulator::Run")
          /\ ifUp' = [ x \in Interfaces(topo) |-> TRUE ]
          /\ nodeInterfaceMap' = MainRegistry(topo)
          /\ LET trackers == [ k \in { Trackers[j] : j \in 1..3 } |->
                                 NetworkConvergenceTracker(Routers(topo)) ]
             IN  /\ m_trackers' = trackers
                 /\ rendered' = [ k \in DOMAIN trackers |->
                                    [ i \in DOMAIN trackers[k] |-> <<>> ] ]
                 /\ disturbed' = [ k \in DOMAIN trackers |->
                                     [ i \in DOMAIN trackers[k] |-> NoDisturbance ] ]
          /\ m_startTime' = [ k \in { Trackers[j] : j \in 1..3 } |-> 0 ]
          /\ queue' = MainSchedules[topo]
          /\ UNCHANGED <<now, tail, last, used, topo, running, stats, report>>

\* A return that leaves the pending events in the scheduler
Main_Return_NoDestroy ==
  /\ main.at = "Simulator::Run"
  /\ ~running
  /\ topo = 2 => report.printed
  /\ main' = Main(main.routingProtocol, "return 0")
  /\ UNCHANGED <<now, queue, tail, ifUp, m_trackers, m_startTime, rendered, disturbed,
                 last, used, topo, running, nodeInterfaceMap, stats, report>>

\* Simulator::Run has returned and the results are printed;
\* Simulator::Destroy () discards the events that are still pending; return 0
Main_Return ==
  /\ main.at = "Simulator::Run"
  /\ ~running
  /\ topo = 2 => report.printed
  /\ queue' = <<>>
  /\ main' = Main(main.routingProtocol, "return 0")
  /\ UNCHANGED <<now, tail, ifUp, m_trackers, m_startTime, rendered, disturbed,
                 last, used, topo, running, nodeInterfaceMap, stats, report>>

\* The steps of the run, while main is in it
Main_Run ==
  /\ main.at = "Simulator::Run"
  /\ MainNext

LaunchNext ==
  \/ Main_ChooseProtocol
  \/ Main_Return
  \/ Main_Run

LaunchSpec == LaunchInit /\ [][LaunchNext]_vars

\* The steps of main from the call of Simulator::Run to its return
RunNext ==
  \/ MainNext
  \/ Main_Return

\* main from the call of Simulator::Run, running on: Simulator::Run executes
\* the pending events one after the other until the Simulator::Stop event,
\* the results are printed and main returns
FairRunSpec == MainInit /\ [][RunNext]_vars /\ WF_vars(RunNext)

-----------------------------------------------------------------------------
(* Specification SetupSpec: a topology is built by calls of                *)
(* ConfigureNetworkLink with every pair of nodes and every container.      *)

SetupNodes == {"t", "r1"}

\* The containers handed to ConfigureNetworkLink: empty, or the two devices
\* of a link
SetupContainers ==
  { <<>> } \cup
  { <<Device(a, i), Device(b, j)>> : a \in SetupNodes, b \in SetupNodes,
                                     i \in 1..MaxInterface, j \in 1..MaxInterface }

\* History: the last step was this call of ConfigureNetworkLink
Configured(node1, node2, ndc) ==
  [ op |-> "ConfigureNetworkLink", node1 |-> node1, node2 |-> node2, ndc |-> ndc ]

SetupInit ==
  /\ now = 0
  /\ queue = <<>>
  /\ tail = [ n \in Nodes |-> InitialTail ]
  /\ topo = 1
  /\ ifUp = [ x \in Interfaces(1) |-> TRUE ]
  /\ m_trackers = [ k \in {"tracker"} |-> NetworkConvergenceTracker(<<>>) ]
  /\ m_startTime = [ k \in {"tracker"} |-> 0 ]
  /\ NoHistory(m_trackers)
  /\ running = TRUE
  /\ nodeInterfaceMap = EmptyMap
  /\ stats = NoFlows
  /\ report = NoReport
  /\ main = InRun

Setup_ConfigureNetworkLink ==
  \E node1 \in SetupNodes \cup {nullptr}, node2 \in SetupNodes \cup {nullptr},
     ndc \in SetupContainers :
    /\ nodeInterfaceMap' = ConfigureNetworkLink(nodeInterfaceMap, node1, node2, ndc)
    /\ last' = Configured(node1, node2, ndc)
    /\ UNCHANGED <<now, queue, tail, ifUp, m_trackers, m_startTime, rendered, disturbed,
                   used, topo, running, stats, report, main>>

SetupNext == Setup_ConfigureNetworkLink

SetupSpec == SetupInit /\ [][SetupNext]_vars

-----------------------------------------------------------------------------
(* Specification ReportSpec: PrintFlowStats of one of the three scenarios  *)
(* is called at the times of main's reports, on every statistics the flow  *)
(* monitor can hold for the flows of FlowTuples.                           *)

ReportInit ==
  /\ now = 0
  /\ queue = <<>>
  /\ tail = [ n \in Nodes |-> InitialTail ]
  /\ topo \in Topologies
  /\ ifUp = [ x \in Interfaces(topo) |-> TRUE ]
  /\ m_trackers = [ k \in {"tracker"} |-> NetworkConvergenceTracker(<<>>) ]
  /\ m_startTime = [ k \in {"tracker"} |-> 0 ]
  /\ NoHistory(m_trackers)
  /\ running = TRUE
  /\ nodeInterfaceMap = MainRegistry(topo)
  /\ stats = NoFlows
  /\ report = NoReport
  /\ main = InRun

\* The times of main's reports that have not passed
ReportTimes == { t \in {LINK_DOWN_TIME, LINK_UP_TIME, SIMULATION_TIME} : t >= now }

\* The reports of a run of main: at the fault, at the recovery, at the end
Reports == 3

\* used counts the reports
Report_PrintFlowStats ==
  \E t \in ReportTimes :
    /\ used < Reports
    /\ Do_PrintFlowStats(t, Len(FlowTuples))
    /\ used' = used + 1
    /\ UNCHANGED queue

ReportNext == Report_PrintFlowStats

ReportSpec == ReportInit /\ [][ReportNext]_vars

-----------------------------------------------------------------------------
(* Properties *)

TrackerIds == DOMAIN m_trackers

\* The largest member of a non-empty set of numbers
Largest(S) == CHOOSE x \in S : \A y \in S : y <= x

LastChangeTimes(k) == { m_trackers[k][i].m_lastChangeTime : i \in DOMAIN m_trackers[k] }

\* Three samplers whose last change times are given
SamplersAt(t1, t2, t3) ==
  << [ RoutingTableTracker("r1") EXCEPT !.m_lastChangeTime = t1 ],
     [ RoutingTableTracker("r2") EXCEPT !.m_lastChangeTime = t2 ],
     [ RoutingTableTracker("r3") EXCEPT !.m_lastChangeTime = t3 ] >>

\* C1: for a tracker over a non-empty set of nodes, GetNetworkConvergenceTime()
\* is the largest lastChangeTime of its samplers minus its start time, in every
\* reachable state; with the window starting at 100.0 s and changes recorded at
\* 101.2 s and 101.5 s (the third sampler never changing) it is 1.5 s.
C1_MaxMinusStart ==
  /\ \A k \in TrackerIds :
       Len(m_trackers[k]) > 0 =>
         GetNetworkConvergenceTime(k) = Largest(LastChangeTimes(k)) - m_startTime[k]
  /\ ConvergenceTime(SamplersAt(1012, 1015, 1000), 1000) = 15

\* C1 witness: a started tracker of three samplers, one changed 1.2 s after the
\* start, one 1.5 s after it, one never; the convergence time is 1.5 s
C1_Witness ==
  \E k \in TrackerIds :
    /\ Len(m_trackers[k]) = 3
    /\ m_trackers[k][1].m_lastChangeTime = m_startTime[k] + 12
    /\ m_trackers[k][2].m_lastChangeTime = m_startTime[k] + 15
    /\ m_trackers[k][3].m_lastChangeTime = m_startTime[k]
    /\ m_startTime[k] > 0
    /\ GetNetworkConvergenceTime(k) = 15

\* C2 (as claimed): for every monitored node set, the empty one included, and
\* every start time, GetNetworkConvergenceTime() >= 0 in every reachable state.
C2_NonNegative ==
  \A k \in TrackerIds : GetNetworkConvergenceTime(k) >= 0

\* Every active tick of tracker k since its latest Start captured the table
\* that was stored, which is then still the baseline
NoTickDiffered(k) == \A i \in DOMAIN m_trackers[k] : ~disturbed[k][i].differed

\* C3 (as claimed): if at every active tick of a window each monitored node's
\* captured table equals the baseline captured at Start, then
\* GetNetworkConvergenceTime() is exactly 0, whatever the window's start time
\* and whatever was stored before Start.
C3_BaselineIsNoChange ==
  \A k \in TrackerIds : NoTickDiffered(k) => GetNetworkConvergenceTime(k) = 0

\* The same for the windows that monitor at least one node, where it holds
C3_BaselineIsNoChange_NonEmpty ==
  \A k \in TrackerIds :
    Len(m_trackers[k]) > 0 /\ NoTickDiffered(k) => GetNetworkConvergenceTime(k) = 0

-----------------------------------------------------------------------------
(* Properties of the sampler's operations, as steps *)

LastChange(k, i) == m_trackers[k][i].m_lastChangeTime

Stored(k, i) == m_trackers[k][i].m_lastRoutingTable

Tracking(k, i) == m_trackers[k][i].m_tracking

\* The step is the tick of sampler i of tracker k
Tick(k, i) ==
  /\ queue # <<>>
  /\ Head(queue).f = "CheckRoutingTable"
  /\ Head(queue).k = k
  /\ Head(queue).i = i
  /\ last'.op = "CheckRoutingTable"

\* The step is the Start of tracker k
Started(k) == last'.op = "Start" /\ last'.k = k

\* The table the step's operation captures for sampler i of tracker k
Captured(k, i) == GetRoutingTable(m_trackers[k][i].m_node, now')

\* C4 (as claimed): lastChangeTime of every sampler never decreases, and an
\* operation (Start, tick or Stop) changes it only when the table the operation
\* captures differs from the table stored before it.
C4_ChangesOnlyOnDifference ==
  [][ \A x \in Samplers :
        /\ LastChange(x[1], x[2])' >= LastChange(x[1], x[2])
        /\ LastChange(x[1], x[2])' # LastChange(x[1], x[2])
             => Captured(x[1], x[2]) # Stored(x[1], x[2]) ]_vars

\* C4 (amended): lastChangeTime of every sampler never decreases; Start sets it
\* to the current time whatever table it captures; any other step changes it
\* only if it is an active tick whose captured table differs from the stored
\* one, and then to the current time.
C4_MonotoneChangeTime ==
  [][ \A x \in Samplers :
        /\ LastChange(x[1], x[2])' >= LastChange(x[1], x[2])
        /\ Started(x[1]) => LastChange(x[1], x[2])' = now'
        /\ (~Started(x[1]) /\ LastChange(x[1], x[2])' # LastChange(x[1], x[2]))
             => /\ Tick(x[1], x[2])
                /\ Tracking(x[1], x[2])
                /\ Captured(x[1], x[2]) # Stored(x[1], x[2])
                /\ LastChange(x[1], x[2])' = now' ]_vars

\* C4 witness: a window started after time 0 moved the change time from 0 to
\* its start, and an active tick of it has then recorded a later change
C4_Witness ==
  /\ last.op = "CheckRoutingTable"
  /\ last.tracking
  /\ m_startTime[last.k] > 0
  /\ LastChange(last.k, last.i) = now
  /\ now > m_startTime[last.k]

\* C5: a tick of an active sampler whose captured table equals the stored one
\* leaves the sampler's lastChangeTime and stored table as they were.
C5_EqualSampleChangesNothing ==
  [][ \A x \in Samplers :
        (Tick(x[1], x[2]) /\ Tracking(x[1], x[2])
           /\ Captured(x[1], x[2]) = Stored(x[1], x[2]))
          => /\ LastChange(x[1], x[2])' = LastChange(x[1], x[2])
             /\ Stored(x[1], x[2])' = Stored(x[1], x[2]) ]_vars

\* C5 witness: the second tick in a row of an active sampler has captured the
\* stored table, and the change time is still the window's start
C5_Witness ==
  /\ last.op = "CheckRoutingTable"
  /\ last.tracking
  /\ now >= m_startTime[last.k] + FirstCheckDelay + CheckPeriod
  /\ Stored(last.k, last.i) = GetRoutingTable(m_trackers[last.k][last.i].m_node, now)
  /\ LastChange(last.k, last.i) = m_startTime[last.k]

\* C6: a queued tick that fires on a stopped sampler changes no sampler (stored
\* table and lastChangeTime included) and leaves the queue without a new tick,
\* whatever the node's table has become.
C6_TickAfterStopIsNoOp ==
  [][ \A x \in Samplers :
        (Tick(x[1], x[2]) /\ ~Tracking(x[1], x[2]))
          => /\ m_trackers' = m_trackers
             /\ m_startTime' = m_startTime
             /\ queue' = Tail(queue) ]_vars

\* C6 witness: a tick has fired on a stopped sampler whose node's table is no
\* longer the stored one; no change is recorded and no tick of it is pending
C6_Witness ==
  /\ last.op = "CheckRoutingTable"
  /\ ~last.tracking
  /\ ~Tracking(last.k, last.i)
  /\ Stored(last.k, last.i) = <<"a">>
  /\ tail[m_trackers[last.k][last.i].m_node] = <<NL, "b">>
  /\ LastChange(last.k, last.i) < now
  /\ \A j \in DOMAIN queue : ~(queue[j].k = last.k /\ queue[j].i = last.i)

\* C7: if, since a sampler's previous sample, a link was torn down and brought
\* up again, or the table changed more than once, and the sampler's active tick
\* captures the stored table, the tick records no change.
C7_DiffNotEventCount ==
  [][ \A x \in Samplers :
        (Tick(x[1], x[2]) /\ Tracking(x[1], x[2])
           /\ (disturbed[x[1]][x[2]].links = 2 \/ disturbed[x[1]][x[2]].routes = 2)
           /\ Captured(x[1], x[2]) = Stored(x[1], x[2]))
          => LastChange(x[1], x[2])' = LastChange(x[1], x[2]) ]_vars

\* C7 witness: a link went down and came up between a sampler's baseline and
\* its active tick, which captured the stored table and recorded nothing
C7_Witness ==
  /\ last.op = "CheckRoutingTable"
  /\ last.tracking
  /\ last.links = 2
  /\ \A d \in LinkNames(topo) : LinkIsUp(d)
  /\ Stored(last.k, last.i) = GetRoutingTable(m_trackers[last.k][last.i].m_node, now)
  /\ LastChange(last.k, last.i) < now

\* What a rendering holds after its first line (nothing, if it is one line)
AfterFirstLine(r) ==
  IF Find(r, NL) = npos THEN <<>> ELSE Substr(r, Find(r, NL) + 1)

\* C8 (as claimed): an active tick whose rendering differs from the rendering
\* of the sampler's previous sample in the first line only (the line with the
\* current time) records no change, whatever the node renders.
C8_TimeLineNeverCounts ==
  [][ \A x \in Samplers :
        (Tick(x[1], x[2]) /\ Tracking(x[1], x[2])
           /\ AfterFirstLine(PrintRoutingTable(m_trackers[x[1]][x[2]].m_node, now'))
                = AfterFirstLine(rendered[x[1]][x[2]]))
          => LastChange(x[1], x[2])' = LastChange(x[1], x[2]) ]_vars

\* The same for renderings whose first line ends with a line break, where it holds
C8_TimeLineNeverCounts_LineBreak ==
  [][ \A x \in Samplers :
        (Tick(x[1], x[2]) /\ Tracking(x[1], x[2])
           /\ Find(rendered[x[1]][x[2]], NL) # npos
           /\ Find(PrintRoutingTable(m_trackers[x[1]][x[2]].m_node, now'), NL) # npos
           /\ AfterFirstLine(PrintRoutingTable(m_trackers[x[1]][x[2]].m_node, now'))
                = AfterFirstLine(rendered[x[1]][x[2]]))
          => LastChange(x[1], x[2])' = LastChange(x[1], x[2]) ]_vars

\* C11 (as claimed): when a node's table changes at the very time at which a
\* window is stopped (the change is the step before the Stop, at the same
\* virtual time, and the table then differs from the stored one), the Stop
\* leaves the sampler's lastChangeTime equal to the stop time.
C11_StopSamplesBoundaryChange ==
  [][ \A x \in Samplers :
        (Tracking(x[1], x[2]) /\ ~Tracking(x[1], x[2])'
           /\ last.op = "RouteChange"
           /\ last.k = m_trackers[x[1]][x[2]].m_node
           /\ now' = now
           /\ Captured(x[1], x[2]) # Stored(x[1], x[2]))
          => LastChange(x[1], x[2])' = now' ]_vars

-----------------------------------------------------------------------------
(* Properties of main's schedule *)

\* The last callback sampled a table for tracker k: its Start, or an active tick
Sampled(k) ==
  /\ last.k = k
  /\ last.op = "Start" \/ (last.op = "CheckRoutingTable" /\ last.tracking)

\* C9: whenever the during-fault tracker takes a sample (the baseline of its
\* Start or an active tick) every faulted link of the topology has been torn
\* down, and whenever the after-recovery tracker takes one every faulted link
\* has been brought up again.
C9_LinkActionsBeforeSamples ==
  /\ Sampled(Trackers[2]) => \A d \in LinkNames(topo) : LinkIsDown(d)
  /\ Sampled(Trackers[3]) => \A d \in LinkNames(topo) : LinkIsUp(d)

\* C9 witness: in topologia2 the during-fault tracker has just taken its
\* baseline at the fault time, with both faulted links down
C9_Witness ==
  /\ topo = 2
  /\ last.op = "Start"
  /\ last.k = Trackers[2]
  /\ now = LINK_DOWN_TIME
  /\ LinkIsDown("ndcR1R2")
  /\ LinkIsDown("ndcR3R4")

\* C10: the before-fault tracker starts at time 0 and tracks until the fault
\* time and never after it; its samplers' lastChangeTime is earlier than the
\* fault time; and each of its samples is taken before the fault time, with
\* every faulted link still up.
C10_BeforeFaultWindowEndsAtFault ==
  /\ m_startTime[Trackers[1]] = 0
  /\ (last.op = "Start" /\ last.k = Trackers[1]) => now = 0
  /\ \A i \in DOMAIN m_trackers[Trackers[1]] :
       /\ (0 < now /\ now < LINK_DOWN_TIME) => Tracking(Trackers[1], i)
       /\ now > LINK_DOWN_TIME => ~Tracking(Trackers[1], i)
       /\ LastChange(Trackers[1], i) < LINK_DOWN_TIME
  /\ Sampled(Trackers[1])
       => now < LINK_DOWN_TIME /\ \A d \in LinkNames(topo) : LinkIsUp(d)

\* C10 witness: the tick of the before-fault tracker that is due at the fault
\* time has fired on a stopped sampler, after the link went down and the
\* node's table changed, and recorded nothing
C10_Witness ==
  /\ last.op = "CheckRoutingTable"
  /\ last.k = Trackers[1]
  /\ ~last.tracking
  /\ now = LINK_DOWN_TIME
  /\ \A d \in LinkNames(topo) : LinkIsDown(d)
  /\ tail[m_trackers[last.k][last.i].m_node] # InitialTail
  /\ LastChange(last.k, last.i) < LINK_DOWN_TIME

\* An event of function f on the device container d is still in the queue
Pending(d, f) == \E j \in DOMAIN queue : queue[j].f = f /\ queue[j].d = d

\* C12: between callbacks the two ends of every faulted link are both up or
\* both down: both up until its TearDownLink has run, both down from then until
\* its UpLink has run, and both up again after that.
C12_BothEndsTogether ==
  \A d \in LinkNames(topo) :
    /\ LinkIsUp(d) \/ LinkIsDown(d)
    /\ Pending(d, "TearDownLink") => LinkIsUp(d)
    /\ (~Pending(d, "TearDownLink") /\ Pending(d, "UpLink")) => LinkIsDown(d)
    /\ (~Pending(d, "TearDownLink") /\ ~Pending(d, "UpLink")) => LinkIsUp(d)

\* C12 witness: in topologia2, at the recovery time, the first link has been
\* torn down and brought up again (both ends up) and the second one is still
\* down at both ends
C12_Witness ==
  /\ topo = 2
  /\ now = LINK_UP_TIME
  /\ ~Pending("ndcR1R2", "TearDownLink") /\ ~Pending("ndcR1R2", "UpLink")
  /\ LinkIsUp("ndcR1R2")
  /\ Pending("ndcR3R4", "UpLink")
  /\ LinkIsDown("ndcR3R4")

-----------------------------------------------------------------------------
(* Properties of the link registry *)

\* The call registers the link of two distinct nodes whose devices are ndc
RegistersLink(c) ==
  /\ c.op = "ConfigureNetworkLink"
  /\ c.node1 # nullptr /\ c.node2 # nullptr /\ c.node1 # c.node2
  /\ Len(c.ndc) = 2
  /\ c.ndc[1].node = c.node1 /\ c.ndc[2].node = c.node2

\* nodeInterfaceMap.find (key) succeeds and gives value
Resolves(map, key, value) == key \in DOMAIN map /\ map[key] = value

\* C13: when ConfigureNetworkLink has registered the link of two distinct
\* nodes A and B whose devices have the interface indices ifaceA and ifaceB,
\* (A, B) resolves to ifaceA and (B, A) to ifaceB; registering (A, B, 3, 1) in
\* an empty map makes (B, A) resolve to 1 and (A, B) to 3.
C13_SymmetricLookup ==
  /\ RegistersLink(last) =>
       /\ Resolves(nodeInterfaceMap, <<last.node1, last.node2>>, last.ndc[1].interface)
       /\ Resolves(nodeInterfaceMap, <<last.node2, last.node1>>, last.ndc[2].interface)
  /\ LET map == ConfigureNetworkLink(EmptyMap, "A", "B", <<Device("A", 3), Device("B", 1)>>)
     IN  Resolves(map, <<"B", "A">>, 1) /\ Resolves(map, <<"A", "B">>, 3)

\* C13 witness: the link of t and r1 has been registered again with other
\* interface indices, and both directions resolve to the new ones
C13_Witness ==
  /\ RegistersLink(last)
  /\ last.node1 = "r1" /\ last.node2 = "t"
  /\ last.ndc[1].interface = 2 /\ last.ndc[2].interface = 1
  /\ Resolves(nodeInterfaceMap, <<"r1", "t">>, 2)
  /\ Resolves(nodeInterfaceMap, <<"t", "r1">>, 1)
  /\ <<"t", "t">> \in DOMAIN nodeInterfaceMap

\* The step is the fault action (TearDownLink or UpLink) on the container d
FaultAction(d) ==
  /\ running
  /\ queue # <<>>
  /\ Head(queue).f \in {"TearDownLink", "UpLink"}
  /\ Head(queue).d = d
  /\ queue' = Tail(queue)

\* The link of the container d has an entry in nodeInterfaceMap
Registered(d) ==
  <<Links(topo)[d][1].node, Links(topo)[d][2].node>> \in DOMAIN nodeInterfaceMap

\* C14 (as claimed): a fault action on a link whose pair of nodes has no entry
\* in the registry changes no interface state and ends the run in an error.
C14_UnregisteredFaultFails ==
  [][ \A d \in LinkNames(topo) :
        (FaultAction(d) /\ ~Registered(d)) => (ifUp' = ifUp /\ ~running') ]_vars

\* C15: no callback of the run (TearDownLink, UpLink, the samplers' ticks, the
\* trackers' Start and Stop, PrintFlowStats) and no other step after the setup
\* changes nodeInterfaceMap.
C15_RegistryReadOnly ==
  [][ nodeInterfaceMap' = nodeInterfaceMap ]_vars

\* C15 witness: topologia1 has run to its end, every callback included, and
\* the map still holds the entries of both directions of its four links
C15_Witness ==
  /\ topo = 1
  /\ ~running
  /\ ~Pending("ndc1", "TearDownLink") /\ ~Pending("ndc1", "UpLink")
  /\ nodeInterfaceMap = MainRegistry(1)
  /\ Cardinality(DOMAIN nodeInterfaceMap) = 8
  /\ Resolves(nodeInterfaceMap, <<"t", "r1">>, 1)
  /\ Resolves(nodeInterfaceMap, <<"r2", "r1">>, 1)
  /\ Resolves(nodeInterfaceMap, <<"r1", "r2">>, 2)

-----------------------------------------------------------------------------
(* Properties of the flow-statistics reports *)

\* The flows' lines of the latest report
Lines == IF report.printed THEN report.lines ELSE <<>>

IsNumber(x) == x.kind = "number"

\* Exactly 0, and not through a divisor that wrapped
IsZero(x) == IsNumber(x) /\ x.num = 0 /\ ~x.wrapped

\* The loss ratio of a line is lostPackets / txPackets, or exactly 0 without
\* packets sent
LossRatioAsDefined(l) ==
  IF l.txPackets > 0 THEN l.lossRatio = Number(l.lostPackets, l.txPackets)
  ELSE IsZero(l.lossRatio)

\* C16 (as claimed): in every report of the three scenarios the loss ratio of
\* every line is lostPackets / txPackets when txPackets > 0 and exactly 0 when
\* txPackets = 0, never NaN or infinity.
C16_LossRatioGuarded ==
  \A j \in DOMAIN Lines : LossRatioAsDefined(Lines[j])

\* The same for the reports of topologia1.cc and topologia3.cc, where it holds
C16_LossRatioGuarded_Topologia13 ==
  topo # 2 => \A j \in DOMAIN Lines : LossRatioAsDefined(Lines[j])

\* The jitter sum behind a line: the flow's, or for the totals (flowId 0) the
\* sum over the flows that received more than one packet
JitterSumOf(l) ==
  IF l.flowId = 0 THEN Totals(stats, 1, NoTotals).totalJitterSum
  ELSE stats[l.flowId].jitterSum

JitterAsDefined(l) ==
  IF l.rxPackets > 1 THEN l.jitter = Number(JitterSumOf(l), l.rxPackets - 1)
  ELSE IsZero(l.jitter)

\* C17 (as claimed): in every report the average jitter of every line is
\* jitterSum / (rxPackets - 1) when rxPackets > 1, and exactly 0, with no
\* division by rxPackets - 1, when rxPackets is 0 or 1.
C17_JitterGuarded ==
  \A j \in DOMAIN Lines : JitterAsDefined(Lines[j])

\* The same for the reports of topologia1.cc and topologia3.cc, where it holds
C17_JitterGuarded_Topologia13 ==
  topo # 2 => \A j \in DOMAIN Lines : JitterAsDefined(Lines[j])

ZeroPacketsAsDefined(l) ==
  /\ l.txPackets = 0 => IsZero(l.averagePacketSize)
  /\ l.rxPackets = 0 => IsZero(l.delay)

\* C18 (as claimed): in every report the average packet size of a line with
\* txPackets = 0 is 0 and the average delay of a line with rxPackets = 0 is 0.
C18_ZeroPacketsAreZero ==
  \A j \in DOMAIN Lines : ZeroPacketsAsDefined(Lines[j])

\* The same for the reports of topologia1.cc and topologia3.cc, where it holds
C18_ZeroPacketsAreZero_Topologia13 ==
  topo # 2 => \A j \in DOMAIN Lines : ZeroPacketsAsDefined(Lines[j])

\* C19: in every report, every line with txPackets > 0 (a flow's line, or the
\* totals of topologia3.cc) has the loss ratio lostPackets / txPackets, a
\* number from 0 to 1.
C19_LossRatioInUnitInterval ==
  \A j \in DOMAIN Lines :
    Lines[j].txPackets > 0 =>
      /\ IsNumber(Lines[j].lossRatio)
      /\ ~Lines[j].lossRatio.wrapped
      /\ Lines[j].lossRatio.den = Lines[j].txPackets
      /\ Lines[j].lossRatio.num = Lines[j].lostPackets
      /\ 0 <= Lines[j].lossRatio.num
      /\ Lines[j].lossRatio.num <= Lines[j].lossRatio.den

\* C19 witness: topologia3.cc has reported the totals of two flows, of whose
\* three packets two are lost: the loss ratio is 2/3
C19_Witness ==
  /\ topo = 3
  /\ report.printed
  /\ Len(stats) = 2
  /\ stats[1].txPackets > 0 /\ stats[2].txPackets > 0
  /\ Len(report.lines) = 1
  /\ report.lines[1].txPackets = 3
  /\ report.lines[1].lossRatio = Number(2, 3)

\* The received bytes behind the line of flow flowId (0: the totals) of a
\* report on the statistics st
RxBytesOf(st, flowId) ==
  IF flowId = 0 THEN Totals(st, 1, NoTotals).totalRxBytes
  ELSE st[flowId].rxBytes

\* C20: every report gives as throughput rxBytes * 8 / SIMULATION_TIME / 10^6,
\* whatever the time of the report; a report that follows another gives, for
\* the same flow, the same throughput if rxBytes is the same, and never a
\* smaller one.
C20_ThroughputOverFixedDuration ==
  [][ report'.printed =>
        \A j \in DOMAIN report'.lines :
          /\ report'.lines[j].throughput
               = Number(RxBytesOf(stats', report'.lines[j].flowId) * 8,
                        SIMULATION_TIME * 1000 * 1000)
          /\ \A i \in DOMAIN Lines :
               Lines[i].flowId = report'.lines[j].flowId =>
                 /\ RxBytesOf(stats', Lines[i].flowId) = RxBytesOf(stats, Lines[i].flowId)
                      => report'.lines[j].throughput = Lines[i].throughput
                 /\ report'.lines[j].throughput.den = Lines[i].throughput.den
                 /\ report'.lines[j].throughput.num >= Lines[i].throughput.num ]_vars

\* C20 witness: the third report of topologia1.cc, at the end of the run,
\* gives the throughput of the two packets received: 2 * 1024 * 8 bits over
\* SIMULATION_TIME
C20_Witness ==
  /\ topo = 1
  /\ used = Reports
  /\ report.printed
  /\ report.at = SIMULATION_TIME
  /\ Len(report.lines) = 1
  /\ report.lines[1].rxPackets = 2
  /\ report.lines[1].throughput = Number(16384, SIMULATION_TIME * 1000 * 1000)

\* The sum of a field over the records of a sequence
RECURSIVE SumField(_, _)
SumField(st, field) ==
  IF st = <<>> THEN 0 ELSE Head(st)[field] + SumField(Tail(st), field)

ReceivedMoreThanOne(f) == f.rxPackets > 1

\* C21: the report of topologia3.cc on at least one flow has one line, whose
\* counters are the sums of txPackets, rxPackets and lostPackets over all
\* flows; its loss ratio, average packet size, throughput and delay are the
\* per-flow formulas on the sums (of txBytes, rxBytes and delaySum as well);
\* its jitter is the sum of jitterSum over the flows with rxPackets > 1,
\* divided by (total rxPackets - 1), or 0 when total rxPackets <= 1.
C21_AggregateOfTotals ==
  (topo = 3 /\ report.printed /\ Len(stats) > 0) =>
    /\ Len(report.lines) = 1
    /\ LET l == report.lines[1]
           tx == SumField(stats, "txPackets")
           rx == SumField(stats, "rxPackets")
           lost == SumField(stats, "lostPackets")
           jitterSum == SumField(SelectSeq(stats, ReceivedMoreThanOne), "jitterSum")
       IN  /\ l.txPackets = tx /\ l.rxPackets = rx /\ l.lostPackets = lost
           /\ l.lossRatio = IF tx > 0 THEN Number(lost, tx) ELSE Zero
           /\ l.averagePacketSize
                = IF tx > 0 THEN Number(SumField(stats, "txBytes"), tx) ELSE Zero
           /\ l.throughput
                = Number(SumField(stats, "rxBytes") * 8, SIMULATION_TIME * 1000 * 1000)
           /\ l.delay = IF rx > 0 THEN Number(SumField(stats, "delaySum"), rx) ELSE Zero
           /\ l.jitter = IF rx > 1 THEN Number(jitterSum, rx - 1) ELSE Zero

\* C21 witness: topologia3.cc has reported two flows, one that received two
\* packets and one that received one: the jitter is the first flow's jitter
\* sum over the three packets less one, the delay the sum of both over three
C21_Witness ==
  /\ topo = 3
  /\ report.printed
  /\ Len(stats) = 2
  /\ stats[1].rxPackets = 2 /\ stats[2].rxPackets = 1
  /\ stats[1].lostPackets = 0 /\ stats[2].lostPackets = 1
  /\ report.lines[1].rxPackets = 3
  /\ report.lines[1].txPackets = 4
  /\ report.lines[1].jitter = Number(stats[1].jitterSum, 2)
  /\ report.lines[1].delay = Number(3, 3)
  /\ report.lines[1].lossRatio = Number(1, 4)

\* The value of a field behind the line of flow flowId of a report on the
\* statistics st: the flow's, or for the totals (flowId 0) the sum over the flows
FieldOf(st, flowId, field) ==
  IF flowId = 0 THEN SumField(st, field) ELSE st[flowId][field]

\* Two quotients of small integers are the same number
SameValue(x, y) ==
  /\ IsNumber(x) /\ IsNumber(y)
  /\ ~x.wrapped /\ ~y.wrapped
  /\ x.num * y.den = y.num * x.den

\* The flow of the scenario: 1000 packets of 1024 bytes sent, 950 received in
\* 19 s of delay altogether, 50 lost
ScenarioFlow ==
  [ flowId |-> 1, sourceAddress |-> "t", destinationAddress |-> "r",
    txPackets |-> 1000, rxPackets |-> 950, lostPackets |-> 50,
    txBytes |-> 1024000, rxBytes |-> 972800, delaySum |-> 19, jitterSum |-> 1 ]

\* What each scenario's report prints for the flow of the scenario
ScenarioLines ==
  { PrintFlowStats(tp, <<ScenarioFlow>>, SIMULATION_TIME).lines[1] : tp \in Topologies }

\* C22: in every report a line with txPackets > 0 and rxPackets > 0 has the
\* loss ratio lostPackets / txPackets, the average packet size
\* txBytes / txPackets and the delay delaySum / rxPackets; for the flow of the
\* scenario (1000 sent, 950 received, 50 lost, 1024000 and 972800 bytes, 19 s)
\* the loss ratio is 0.05, the average packet size 1024, the throughput
\* 972800 * 8 over the run's SIMULATION_TIME and 10^6, the delay 19 / 950.
C22_PerFlowFormulas ==
  /\ \A j \in DOMAIN Lines :
       LET l == Lines[j]
       IN  (l.txPackets > 0 /\ l.rxPackets > 0) =>
             /\ l.lossRatio = Number(l.lostPackets, l.txPackets)
             /\ l.averagePacketSize = Number(FieldOf(stats, l.flowId, "txBytes"), l.txPackets)
             /\ l.delay = Number(FieldOf(stats, l.flowId, "delaySum"), l.rxPackets)
  /\ \A l \in ScenarioLines :
       /\ SameValue(l.lossRatio, Number(5, 100))
       /\ SameValue(l.averagePacketSize, Number(1024, 1))
       /\ l.throughput = Number(972800 * 8, SIMULATION_TIME * 1000 * 1000)
       /\ SameValue(l.delay, Number(19, 950))

\* C22 witness: topologia1.cc has reported the flow from T to R with two
\* packets sent, one received and one lost: loss ratio 1/2, average packet
\* size 2048/2, delay 1/1
C22_Witness ==
  /\ topo = 1
  /\ report.printed
  /\ Len(report.lines) = 1
  /\ report.lines[1].txPackets = 2
  /\ report.lines[1].rxPackets = 1
  /\ report.lines[1].lostPackets = 1
  /\ report.lines[1].lossRatio = Number(1, 2)
  /\ report.lines[1].averagePacketSize = Number(2 * PacketSize, 2)
  /\ report.lines[1].delay = Number(1, 1)

\* The flows the report of topologia1.cc is asked for: from T to R
FromTToR(f) == f.sourceAddress = "t" /\ f.destinationAddress = "r"

\* The lines of the latest report are those of the flows from T to R in the
\* statistics, one each, with the flow's counters, and of no other flow
ReportsExactlyThePair ==
  LET matching == SelectSeq(stats, FromTToR)
  IN  /\ Len(report.lines) = Len(matching)
      /\ \A j \in DOMAIN matching :
           /\ report.lines[j].flowId = matching[j].flowId
           /\ report.lines[j].txPackets = matching[j].txPackets
           /\ report.lines[j].rxPackets = matching[j].rxPackets
           /\ report.lines[j].lostPackets = matching[j].lostPackets
      /\ \A j \in DOMAIN report.lines :
           /\ report.lines[j].flowId \in DOMAIN stats
           /\ FromTToR(stats[report.lines[j].flowId])

\* C23 (as claimed): when topologia1.cc's PrintFlowStats has run, its lines
\* are exactly those of the flows from the first node's address to the second
\* node's, and every counter of every flow is what it was when the function
\* was called.
C23_PairFilterReadOnly ==
  (topo = 1 /\ last.op = "PrintFlowStats") =>
    /\ ReportsExactlyThePair
    /\ stats = last.read

\* C23 (amended): when topologia1.cc's PrintFlowStats has run, its lines are
\* exactly those of the flows from the first node's address to the second
\* node's; the flows are those of the call, each with the txPackets,
\* rxPackets, byte counts, delaySum and jitterSum it had; lostPackets of a
\* flow is what it was or more (monitor->CheckForLostPackets () counts packets
\* as lost), and never more than the packets sent and not received.
C23_PairFilterCountsLost ==
  (topo = 1 /\ last.op = "PrintFlowStats") =>
    /\ ReportsExactlyThePair
    /\ Len(stats) = Len(last.read)
    /\ \A j \in DOMAIN stats :
         /\ [ stats[j] EXCEPT !.lostPackets = 0 ] = [ last.read[j] EXCEPT !.lostPackets = 0 ]
         /\ stats[j].lostPackets >= last.read[j].lostPackets
         /\ stats[j].lostPackets <= stats[j].txPackets - stats[j].rxPackets

\* C23 witness: the monitor holds the flow from T to R and the flow from R to
\* T, both with packets; topologia1.cc has reported the first one only, and
\* the call has counted one more of its packets as lost
C23_Witness ==
  /\ topo = 1
  /\ last.op = "PrintFlowStats"
  /\ Len(stats) = 2
  /\ stats[1].txPackets = 2 /\ stats[2].txPackets = 1
  /\ Len(report.lines) = 1
  /\ report.lines[1].flowId = 1
  /\ report.lines[1].lostPackets = 1
  /\ last.read[1].lostPackets = 0

-----------------------------------------------------------------------------
(* Properties of main's start *)

\* Nothing of the run has been scheduled or executed
NothingScheduledOrExecuted ==
  /\ queue = <<>>
  /\ now = 0
  /\ last = Other
  /\ \A x \in DOMAIN ifUp : ifUp[x]
  /\ \A x \in Samplers : ~Tracking(x[1], x[2])
  /\ ~report.printed
  /\ stats = NoFlows

\* C24: when the routing protocol's name is neither "rip" nor "olsr", main,
\* once past the choice of the protocol, has returned 1, and no event (link
\* action, tracker Start or Stop, tick, report) has been scheduled or executed.
C24_UnknownProtocolAborts ==
  (main.routingProtocol # rip /\ main.routingProtocol # olsr /\ main.at # "start") =>
    /\ main.at = "return 1"
    /\ NothingScheduledOrExecuted

\* C24 witness: topologia3 called with the protocol "ospf" has returned 1 with
\* an empty event queue
C24_Witness ==
  /\ topo = 3
  /\ main = Main(<<"o", "s", "p", "f">>, "return 1")
  /\ NothingScheduledOrExecuted

-----------------------------------------------------------------------------
(* Properties of the tick chains *)

\* The positions in the queue q of the pending ticks of sampler i of tracker k
PendingTicks(q, k, i) ==
  { j \in DOMAIN q : q[j].f = "CheckRoutingTable" /\ q[j].k = k /\ q[j].i = i }

\* In the queue q exactly one tick of the sampler is pending, due at time t
OneTickAt(q, k, i, t) ==
  /\ Cardinality(PendingTicks(q, k, i)) = 1
  /\ \A j \in PendingTicks(q, k, i) : q[j].ts = t

\* C25 (as claimed): a Start at time s leaves exactly one tick of each of its
\* samplers pending, due at s + 1.0 s; a tick that fires on an active sampler
\* fires at s + 1.0 s + 0.1 s * n for some n >= 0, s being the time of the
\* sampler's latest Start, and leaves exactly one tick of the sampler
\* pending, due 0.1 s later.
C25_TicksOnTheGrid ==
  [][ \A x \in Samplers :
        /\ Started(x[1]) => OneTickAt(queue', x[1], x[2], now' + FirstCheckDelay)
        /\ (Tick(x[1], x[2]) /\ Tracking(x[1], x[2]))
             => /\ now' >= m_startTime[x[1]] + FirstCheckDelay
                /\ (now' - m_startTime[x[1]] - FirstCheckDelay) % CheckPeriod = 0
                /\ OneTickAt(queue', x[1], x[2], now' + CheckPeriod) ]_vars

\* The trackers that have an active sampler
ActiveTrackers == { k \in TrackerIds : \E i \in DOMAIN m_trackers[k] : Tracking(k, i) }

\* C26: between the callbacks of a scenario run at most one of the three
\* trackers has active samplers: from its Start until the fault time the
\* before-fault tracker, then until the recovery time the during-fault
\* tracker, then the after-recovery tracker; at the fault time and at the
\* recovery time the earlier window has stopped when the next one starts.
C26_WindowsPartitionTheRun ==
  /\ Cardinality(ActiveTrackers) <= 1
  /\ (0 < now /\ now < LINK_DOWN_TIME) => ActiveTrackers = { Trackers[1] }
  /\ (LINK_DOWN_TIME < now /\ now < LINK_UP_TIME) => ActiveTrackers = { Trackers[2] }
  /\ (LINK_UP_TIME < now /\ now < SIMULATION_TIME) => ActiveTrackers = { Trackers[3] }
  /\ (last.op = "Start" /\ last.k = Trackers[2]) => ActiveTrackers = { Trackers[2] }
  /\ (last.op = "Start" /\ last.k = Trackers[3]) => ActiveTrackers = { Trackers[3] }

\* C26 witness: at the recovery time the after-recovery tracker has just
\* started; the during-fault tracker, active until then, is stopped, and its
\* tick due at this time is still pending
C26_Witness ==
  /\ now = LINK_UP_TIME
  /\ last.op = "Start"
  /\ last.k = Trackers[3]
  /\ \A i \in DOMAIN m_trackers[Trackers[3]] : Tracking(Trackers[3], i)
  /\ \A i \in DOMAIN m_trackers[Trackers[2]] : ~Tracking(Trackers[2], i)
  /\ PendingTicks(queue, Trackers[2], 1) # {}
  /\ ActiveTrackers = { Trackers[3] }

\* No sampler of tracker k is active
Stopped(k) == \A i \in DOMAIN m_trackers[k] : ~Tracking(k, i)

\* C27: a step that finds a tracker stopped and is not a Start of that tracker
\* (a route change, a link action, a tick of any sampler, the tracker's own
\* pending ticks included, another tracker's Start or Stop, a report, the end
\* of the run) leaves the tracker's GetNetworkConvergenceTime() as it was.
C27_StoppedResultFrozen ==
  [][ \A k \in TrackerIds :
        (Stopped(k) /\ ~Started(k))
          => GetNetworkConvergenceTime(k)' = GetNetworkConvergenceTime(k) ]_vars

\* C27 witness: the run has ended; after the during-fault tracker was stopped
\* a node's table changed, which the after-recovery tracker recorded; the
\* during-fault tracker still stores the old table and reports 0
C27_Witness ==
  /\ ~running
  /\ Stopped(Trackers[2])
  /\ m_startTime[Trackers[2]] = LINK_DOWN_TIME
  /\ GetNetworkConvergenceTime(Trackers[2]) = 0
  /\ \E i \in DOMAIN m_trackers[Trackers[2]] :
       /\ Stored(Trackers[2], i) # GetRoutingTable(m_trackers[Trackers[2]][i].m_node, now)
       /\ LastChange(Trackers[3], i) > LINK_UP_TIME
  /\ GetNetworkConvergenceTime(Trackers[3]) > 0

\* The times for which main schedules the Start and the Stop of its j-th tracker
WindowStart(j) == TrackerEvents[2 * j - 1].ts

WindowEnd(j) == TrackerEvents[2 * j].ts

\* The Start of tracker k has run
HasStarted(k) == \A j \in DOMAIN queue : ~(queue[j].f = "Start" /\ queue[j].k = k)

\* C28: for each tracker of a scenario run that has been started, at time s,
\* and is stopped at time e, every sampler's lastChangeTime is from s to e at
\* every moment of the run and after it, and GetNetworkConvergenceTime() is
\* from 0 to e - s.
C28_ResultWithinWindow ==
  \A j \in DOMAIN Trackers :
    HasStarted(Trackers[j]) =>
      /\ m_startTime[Trackers[j]] = WindowStart(j)
      /\ \A i \in DOMAIN m_trackers[Trackers[j]] :
           /\ WindowStart(j) <= LastChange(Trackers[j], i)
           /\ LastChange(Trackers[j], i) <= WindowEnd(j)
      /\ GetNetworkConvergenceTime(Trackers[j]) >= 0
      /\ GetNetworkConvergenceTime(Trackers[j]) <= WindowEnd(j) - WindowStart(j)

\* C28 witness: the run has ended; the during-fault tracker recorded a change
\* at its last active tick, one period before its Stop, and a node's table
\* changed no more after that
C28_Witness ==
  /\ ~running
  /\ Stopped(Trackers[2])
  /\ GetNetworkConvergenceTime(Trackers[2]) = LINK_UP_TIME - LINK_DOWN_TIME - CheckPeriod
  /\ GetNetworkConvergenceTime(Trackers[3]) = 0

\* The step is a Start of tracker k or a tick of one of its samplers
Samples(k) == Started(k) \/ \E i \in DOMAIN m_trackers[k] : Tick(k, i)

\* The tick is the first one after the latest Start of the sampler's tracker
FirstTick(k, i) ==
  Tick(k, i) /\ Tracking(k, i) /\ now' = m_startTime[k] + FirstCheckDelay

\* C29 (as claimed): after a Start of a tracker or a tick of one of its
\* samplers, GetNetworkConvergenceTime() is 0, or at least 1.0 s and 1.0 s plus
\* a multiple of 0.1 s; the first tick after Start records the time
\* start + 1.0 s if the table it captures differs from the baseline, and
\* records nothing if the table is the baseline (again).
C29_ZeroOrAtLeastFirstTick ==
  [][ \A k \in TrackerIds :
        /\ Samples(k) =>
             \/ GetNetworkConvergenceTime(k)' = 0
             \/ /\ GetNetworkConvergenceTime(k)' >= FirstCheckDelay
                /\ (GetNetworkConvergenceTime(k)' - FirstCheckDelay) % CheckPeriod = 0
        /\ \A i \in DOMAIN m_trackers[k] :
             FirstTick(k, i) =>
               LastChange(k, i)' = IF Captured(k, i) # Stored(k, i)
                                   THEN m_startTime[k] + FirstCheckDelay
                                   ELSE LastChange(k, i) ]_vars

\* C30 (as claimed): whatever Start and Stop calls have been made, at most one
\* CheckRoutingTable callback of each sampler is pending in the scheduler.
C30_AtMostOnePendingTick ==
  \A x \in Samplers : Cardinality(PendingTicks(queue, x[1], x[2])) <= 1

\* No tick of any sampler is pending in the scheduler
NoPendingTick == \A j \in DOMAIN queue : queue[j].f # "CheckRoutingTable"

\* C31: in a run of main, a tick that fires on a stopped sampler leaves no
\* tick of that sampler pending, and a stopped sampler has at most one tick
\* pending (so after a sampler's Stop at most one of its ticks fires and none
\* is scheduled after it); and from some moment on, when the three trackers
\* are stopped, no tick is pending in the scheduler.
C31_TickChainsTerminate ==
  /\ [][ \A x \in Samplers :
           /\ (Tick(x[1], x[2]) /\ ~Tracking(x[1], x[2]))
                => PendingTicks(queue', x[1], x[2]) = {}
           /\ ~Tracking(x[1], x[2])'
                => Cardinality(PendingTicks(queue', x[1], x[2])) <= 1 ]_vars
  /\ <>[](NoPendingTick /\ \A k \in TrackerIds : Stopped(k))

\* C31 witness: the run of topologia1 has ended and main has returned 0; the
\* three trackers were started and are stopped, and the scheduler is empty
C31_Witness ==
  /\ topo = 1
  /\ main.at = "return 0"
  /\ \A j \in DOMAIN Trackers : m_startTime[Trackers[j]] = WindowStart(j)
  /\ \A k \in TrackerIds : Stopped(k)
  /\ NoPendingTick
  /\ queue = <<>>

-----------------------------------------------------------------------------
(* ConfigureNetworkLink with arguments it rejects *)

\* The call c of ConfigureNetworkLink had a null node or an empty container
InvalidLink(c) ==
  /\ c.op = "ConfigureNetworkLink"
  /\ (c.node1 = nullptr \/ c.node2 = nullptr \/ Len(c.ndc) = 0)

\* C32: a call of ConfigureNetworkLink with a null node or an empty device
\* container leaves nodeInterfaceMap as it was and assigns no address, and
\* the setup goes on: the next call of ConfigureNetworkLink can be made.
C32_InvalidLinkRegistersNothing ==
  /\ [][ InvalidLink(last') => nodeInterfaceMap' = nodeInterfaceMap ]_vars
  /\ [](InvalidLink(last) =>
          /\ ConfigureNetworkLink_Assign(last.node1, last.node2, last.ndc) = {}
          /\ ENABLED Setup_ConfigureNetworkLink)

\* C32 witness: the link of t and r1 is registered, and the last call, with
\* a null node and the devices of that link in the other order, has left
\* the two entries as they were
C32_Witness ==
  /\ InvalidLink(last)
  /\ last.node1 = nullptr /\ last.node2 = "t"
  /\ last.ndc = <<Device("r1", 2), Device("t", 2)>>
  /\ DOMAIN nodeInterfaceMap = { <<"t", "r1">>, <<"r1", "t">> }
  /\ Resolves(nodeInterfaceMap, <<"t", "r1">>, 1)
  /\ Resolves(nodeInterfaceMap, <<"r1", "t">>, 1)

-----------------------------------------------------------------------------
(* The sampler compares with its latest sample *)

\* GetRoutingTable's cut of the first line, applied to the rendering r
TableOf(r) == IF Find(r, NL) # npos THEN Substr(r, Find(r, NL) + 1) ELSE r

\* The table the sampler's previous sample (its Start or its latest active
\* tick) captured
PreviousSample(k, i) == TableOf(rendered[k][i])

\* C33: after a Start and after every tick of an active sampler the stored
\* table is the table that operation captured; so an active tick records a
\* change (at the current time) when the table it captures differs from the
\* one the previous sample captured, and records nothing when the two are
\* equal: a table that has taken a new value and keeps it is recorded as
\* changed by the first tick that captures it and by no later one.
C33_StoredIsLatestSample ==
  [][ \A x \in Samplers :
        /\ (Started(x[1]) \/ (Tick(x[1], x[2]) /\ Tracking(x[1], x[2])))
             => Stored(x[1], x[2])' = Captured(x[1], x[2])
        /\ (Tick(x[1], x[2]) /\ Tracking(x[1], x[2]))
             => IF Captured(x[1], x[2]) # PreviousSample(x[1], x[2])
                THEN LastChange(x[1], x[2])' = now'
                ELSE LastChange(x[1], x[2])' = LastChange(x[1], x[2]) ]_vars

\* C33 witness: the table went from a to b after the baseline and has stayed
\* at b; the first tick recorded the change, and the tick that has just
\* fired, later, captured b again and left the change time at the first tick
C33_Witness ==
  /\ last.op = "CheckRoutingTable"
  /\ last.tracking
  /\ last.routes = 0
  /\ Stored(last.k, last.i) = <<"b">>
  /\ tail[m_trackers[last.k][last.i].m_node] = <<NL, "b">>
  /\ LastChange(last.k, last.i) = m_startTime[last.k] + FirstCheckDelay
  /\ now > LastChange(last.k, last.i)

=============================================================================
